---- MODULE Spec2Model ----
(***************************************************************************)
(* A model of the encoder-decoder Transformer of src/ver1.ipynb.           *)
(*                                                                         *)
(* Tensors are modelled at three levels, each as far as the properties     *)
(* checked here need it:                                                   *)
(*   - shape: the tuple of dimensions, with torch's broadcasting, view and *)
(*     matmul rules, so that a shape error of the code is an error here;   *)
(*   - history: the sequence of operations (with the parameter object, the *)
(*     mask and the random draw each one used) that produced the tensor;   *)
(*     two tensors with the same history hold the same numbers;            *)
(*   - value: for the attention weights, one row (one batch element, one   *)
(*     head, one query position) in fixed point, One standing for 1.0.     *)
(***************************************************************************)
EXTENDS Integers, Sequences, FiniteSets, TLC

VARIABLES hp, mode, rng, nextId, objs, calls, shp, att

vars == <<hp, mode, rng, nextId, objs, calls, shp, att>>

(***************************************************************************)
(* Bounds of the model.                                                    *)
(***************************************************************************)
MaxSeq == 2
MaxBatch == 2
MaxN == 2
MaxCalls == 2
MaxH == 3
MaxSteps == 3
MaxLen == 2
MaxVocab == 2

(***************************************************************************)
(* Program constants.                                                      *)
(***************************************************************************)
\* scores.masked_fill(mask == 0, -1e9)
MaskFill == -1000000000
\* MultiHeadAttention's default dropout, 0.1, in tenths
DropoutTenths == 1

\* fixed point: One is 1.0, Tol is 1e-4 (one unit of the fixed point)
One == 10^4
Tol == One \div 10^4
\* e^-1 in fixed point
EInv == (One * 3679) \div 10^4

\* the row of "mask=None": no mask row at all
NoMask == <<>>

Max(a, b) == IF a >= b THEN a ELSE b
Min(a, b) == IF a <= b THEN a ELSE b

RECURSIVE SumSeq(_)
SumSeq(s) == IF s = <<>> THEN 0 ELSE Head(s) + SumSeq(Tail(s))

RECURSIVE MaxSeqOf(_)
MaxSeqOf(s) == IF Len(s) = 1 THEN s[1] ELSE Max(Head(s), MaxSeqOf(Tail(s)))

RECURSIVE ProdSeq(_)
ProdSeq(s) == IF s = <<>> THEN 1 ELSE Head(s) * ProdSeq(Tail(s))

(***************************************************************************)
(* Attention.forward, one row of the weights: the scores of one query      *)
(* position against the seq_k key positions.  masked_fill, softmax(dim=-1) *)
(* and dropout act on each row independently of the others.                *)
(***************************************************************************)

\* exp(-d) for an integer d >= 0 in fixed point; float32's exp underflows to
\* 0 long before d reaches the distance between a score and MaskFill
RECURSIVE ExpNeg(_)
ExpNeg(d) ==
    IF d = 0 THEN One
    ELSE IF d >= 104 THEN 0
    ELSE (ExpNeg(d - 1) * EInv) \div One

\* scores.masked_fill(mask == 0, -1e9); maskRow = NoMask when mask is None
MaskedFillDiscarded(raw, maskRow) == raw
MaskedFill(raw, maskRow) ==
    IF maskRow = NoMask THEN raw
    ELSE [k \in DOMAIN raw |-> IF maskRow[k] = 0 THEN MaskFill ELSE raw[k]]

\* nn.Softmax(dim=-1): exp(x - max) / sum(exp(x - max))
SoftmaxUnnormalised(scores) ==
    LET m == MaxSeqOf(scores)
    IN  [k \in DOMAIN scores |-> ExpNeg(m - scores[k])]
Softmax(scores) ==
    LET m == MaxSeqOf(scores)
        e == [k \in DOMAIN scores |-> ExpNeg(m - scores[k])]
        s == SumSeq(e)
    IN  [k \in DOMAIN scores |-> (e[k] * One) \div s]

\* nn.Dropout(p) in training mode: an element is zeroed or scaled by
\* 1/(1-p); keep[k] is the Bernoulli draw of element k.  p is in tenths.
DropoutRow(w, p, keep) ==
    IF p = 0 THEN w
    ELSE [k \in DOMAIN w |-> IF keep[k] = 1 THEN (w[k] * 10) \div (10 - p) ELSE 0]

\* The weights of one row: p_attn = dropout(softmax(masked_fill(scores))).
\* Attention is a plain class, so its nn.Dropout is never put in eval mode:
\* the dropout is applied whenever p > 0.
AttentionRow(raw, maskRow, p, keep) ==
    LET scores == MaskedFill(raw, maskRow)
        soft == Softmax(scores)
    IN  [scores |-> scores, soft |-> soft, p_attn |-> DropoutRow(soft, p, keep)]

(***************************************************************************)
(* Shapes: torch's broadcasting and view rules.                            *)
(***************************************************************************)
RECURSIVE PadLeft(_, _)
PadLeft(s, n) == IF Len(s) >= n THEN s ELSE PadLeft(<<1>> \o s, n)

Broadcastable(a, b) ==
    LET n == Max(Len(a), Len(b))
        pa == PadLeft(a, n)
        pb == PadLeft(b, n)
    IN  \A i \in 1..n : pa[i] = pb[i] \/ pa[i] = 1 \/ pb[i] = 1

BroadcastShape(a, b) ==
    LET n == Max(Len(a), Len(b))
        pa == PadLeft(a, n)
        pb == PadLeft(b, n)
    IN  [i \in 1..n |-> IF pa[i] = 1 THEN pb[i] ELSE pa[i]]

Last(s) == s[Len(s)]
ButLast(s) == SubSeq(s, 1, Len(s) - 1)

(***************************************************************************)
(* A tensor in flight: ok/err (whether the computation raised), its shape, *)
(* its history, and the position of torch's global random generator after  *)
(* the operations so far.                                                  *)
(***************************************************************************)
Ev(op, par, arg, mem) == [op |-> op, par |-> par, arg |-> arg, mem |-> mem]

Tensor(shape, hist, r) ==
    [ok |-> TRUE, err |-> "none", shape |-> shape, hist |-> hist, rng |-> r]

Raise(c, kind) ==
    [ok |-> FALSE, err |-> kind, shape |-> <<>>, hist |-> <<>>, rng |-> c.rng]

Then(c, op, par, arg, mem, shape) ==
    [c EXCEPT !.shape = shape, !.hist = Append(@, Ev(op, par, arg, mem))]

\* an input tensor: hidden states (batch, seq, d_model) or token ids (batch, seq)
Input(id, shape, r) == Tensor(shape, <<Ev("input", 0, id, <<>>)>>, r)

\* a mask argument: present = FALSE is Python's None.  id names its content;
\* bits is the content itself where the weights are computed: the 0/1 row
\* of one batch element and one query position
NoneMask == [present |-> FALSE, id |-> 0, shape |-> <<>>, bits |-> NoMask]
Mask(id, shape) == [present |-> TRUE, id |-> id, shape |-> shape, bits |-> NoMask]
RowMask(bits) == [present |-> TRUE, id |-> 0, shape |-> <<1, 1, Len(bits)>>, bits |-> bits]
MaskRow(mask) == IF mask.present THEN mask.bits ELSE NoMask

\* An operator that reads a tensor more than once first names its value, as
\* the code holds it in a variable: t \in {c} is "t = c".

\* nn.Linear(in, out): the last dimension must be in
Linear(c, par, in, out) ==
    LET Body(t) ==
            IF ~t.ok THEN t
            ELSE IF Len(t.shape) = 0 \/ Last(t.shape) # in THEN Raise(t, "ShapeMismatch")
            ELSE Then(t, "linear", par, 0, <<>>, ButLast(t.shape) \o <<out>>)
    IN  CHOOSE r \in {Body(t) : t \in {c}} : TRUE

\* nn.Dropout(p): the identity in eval mode or with p = 0; else one draw of
\* the global generator
Dropout(c, p, training) ==
    LET Body(t) ==
            IF ~t.ok \/ ~training \/ p = 0 THEN t
            ELSE [Then(t, "dropout", 0, t.rng, <<>>, t.shape) EXCEPT !.rng = @ + 1]
    IN  CHOOSE r \in {Body(t) : t \in {c}} : TRUE

\* LayerNorm.forward: gamma * (x - mean) / (std + eps) + beta, gamma and beta
\* of shape (features), broadcast against x
LayerNormForward(ln, c) ==
    LET Body(t) ==
            IF ~t.ok THEN t
            ELSE IF Len(t.shape) = 0 \/ ~Broadcastable(t.shape, <<ln.features>>)
                 THEN Raise(t, "ShapeMismatch")
            ELSE Then(t, "norm", ln.par, 0, <<>>, BroadcastShape(t.shape, <<ln.features>>))
    IN  CHOOSE r \in {Body(t) : t \in {c}} : TRUE

\* x + y, y computed from x: torch broadcasts
Add(x, y) ==
    LET Body(tx, ty) ==
            IF ~ty.ok THEN ty
            ELSE IF ~Broadcastable(tx.shape, ty.shape) THEN Raise(ty, "ShapeMismatch")
            ELSE Then(ty, "add", 0, 0, <<>>, BroadcastShape(tx.shape, ty.shape))
    IN  CHOOSE r \in {Body(tx, ty) : tx \in {x}, ty \in {y}} : TRUE

\* l(x).view(query.size(0), -1, h, d_k).transpose(1, 2)
SplitHeads(c, par, b, m) ==
    LET known == b * m.h * m.d_k
        Body(l) ==
            IF ~l.ok THEN l
            ELSE IF known = 0 \/ ProdSeq(l.shape) % known # 0 THEN Raise(l, "ShapeMismatch")
            ELSE [l EXCEPT !.shape = <<b, m.h, ProdSeq(l.shape) \div known, m.d_k>>]
    IN  CHOOSE r \in {Body(l) : l \in {Linear(c, par, m.d_model, m.d_model)}} : TRUE

\* Attention.forward on (batch, h, seq, d_k) tensors: the shapes of
\* matmul(query, key^T), masked_fill, and matmul(p_attn, value)
AttentionForward(query, key, value, mask4, p, training) ==
    LET Body(q, k, v) ==
            LET bq == SubSeq(q.shape, 1, 2)
                bk == SubSeq(k.shape, 1, 2)
                bv == SubSeq(v.shape, 1, 2)
                scores == BroadcastShape(bq, bk) \o <<q.shape[3], k.shape[3]>>
                out == BroadcastShape(SubSeq(scores, 1, 2), bv) \o <<q.shape[3], v.shape[4]>>
                memo == <<k.hist, v.hist>>
            IN  IF ~Broadcastable(bq, bk) \/ q.shape[4] # k.shape[4]
                THEN Raise(q, "ShapeMismatch")
                ELSE IF mask4.present
                        /\ (~Broadcastable(scores, mask4.shape)
                            \/ BroadcastShape(scores, mask4.shape) # scores)
                THEN Raise(q, "ShapeMismatch")
                ELSE IF ~Broadcastable(SubSeq(scores, 1, 2), bv) \/ scores[4] # v.shape[3]
                THEN Raise(q, "ShapeMismatch")
                ELSE Dropout(Then(q, "attention", 0, mask4.id, memo, out), p, training)
    IN  CHOOSE r \in {Body(q, k, v) : q \in {query}, k \in {key}, v \in {value}} : TRUE

\* mask.unsqueeze(1)
Unsqueeze1(mask) ==
    IF ~mask.present THEN mask
    ELSE [mask EXCEPT !.shape = <<@[1], 1>> \o SubSeq(@, 2, Len(@))]

\* MultiHeadAttention.forward.  md.attn is the training flag of the nn.Dropout
\* that self.attn, a plain object, holds.
MultiHeadAttentionForward(m, query, key, value, mask, md) ==
    LET hd == m.h * m.d_k
        Merge(x, nbatches) ==
            IF ~x.ok THEN x
            ELSE Linear([x EXCEPT !.shape =
                            <<nbatches, ProdSeq(x.shape) \div (nbatches * hd), hd>>],
                        m.final_linear, m.d_model, m.d_model)
        Heads(tq, q, k, v) ==
            IF ~q.ok THEN q
            ELSE IF ~k.ok \/ ~v.ok THEN Raise(tq, "ShapeMismatch")
            ELSE CHOOSE r \in
                    {Merge(x, q.shape[1]) :
                        x \in {AttentionForward(q, k, v, Unsqueeze1(mask), m.p, md.attn)}} :
                    TRUE
        Body(tq, tk, tv) ==
            IF ~tq.ok THEN tq
            ELSE IF Len(tq.shape) # 3 \/ Len(tk.shape) # 3 \/ Len(tv.shape) # 3
                    \/ (mask.present /\ Len(mask.shape) # 3)
            THEN Raise(tq, "ShapeMismatch")
            ELSE CHOOSE r \in
                    {Heads(tq, q, k, v) :
                        q \in {SplitHeads(tq, m.linears[1], tq.shape[1], m)},
                        k \in {SplitHeads(tk, m.linears[2], tq.shape[1], m)},
                        v \in {SplitHeads(tv, m.linears[3], tq.shape[1], m)}} : TRUE
    IN  CHOOSE r \in {Body(tq, tk, tv) : tq \in {query}, tk \in {key}, tv \in {value}} : TRUE

\* FeedForward.forward: l2(dropout(relu(l1(x))))
FeedForwardForward(ff, c, training) ==
    LET Relu(a) == IF a.ok THEN Then(a, "relu", 0, 0, <<>>, a.shape) ELSE a
    IN  Linear(Dropout(CHOOSE r \in {Relu(a) : a \in {Linear(c, ff.l1, ff.d_model, ff.d_ff)}} : TRUE,
                       ff.p, training),
               ff.l2, ff.d_ff, ff.d_model)

(***************************************************************************)
(* Module objects.  A parameter object (an nn.Linear, a LayerNorm's        *)
(* gamma/beta) is an integer identity; base is the first free identity.    *)
(***************************************************************************)

\* MultiHeadAttention.__init__: d_k = d_model // h, four d_model x d_model
\* linears and the final linear; nothing checks that h divides d_model
MultiHeadAttentionInit(h, d_model, p, base) ==
    [h |-> h, d_k |-> d_model \div h, d_model |-> d_model, p |-> p,
     linears |-> <<base, base + 1, base + 2, base + 3>>,
     final_linear |-> base + 4]

FeedForwardInit(d_model, d_ff, p, base) ==
    [d_model |-> d_model, d_ff |-> d_ff, p |-> p, l1 |-> base, l2 |-> base + 1]

LayerNormInit(features, base) == [features |-> features, par |-> base]

ResidualConnectionInit(size, p, base) ==
    [norm |-> LayerNormInit(size, base), p |-> p]

\* EncoderLayer.__init__: keeps the attention and feed-forward objects it is
\* given and builds two residual connections.  (An EncoderLayer has no
\* src_attn; the field repeats self_attn so that the two kinds of layer are
\* records of one shape.)
EncoderLayerInit(size, self_attn, feed_forward, p, base) ==
    [kind |-> "EncoderLayer", size |-> size,
     self_attn |-> self_attn, src_attn |-> self_attn, feed_forward |-> feed_forward,
     sub |-> <<ResidualConnectionInit(size, p, base),
               ResidualConnectionInit(size, p, base + 1)>>]

\* DecoderLayer.__init__
DecoderLayerInit(size, self_attn, src_attn, feed_forward, p, base) ==
    [kind |-> "DecoderLayer", size |-> size,
     self_attn |-> self_attn, src_attn |-> src_attn, feed_forward |-> feed_forward,
     sub |-> <<ResidualConnectionInit(size, p, base),
               ResidualConnectionInit(size, p, base + 1),
               ResidualConnectionInit(size, p, base + 2)>>]

MhaIds(m) == {m.linears[i] : i \in DOMAIN m.linears} \cup {m.final_linear}
FfIds(ff) == {ff.l1, ff.l2}

\* the parameter objects reachable from a layer
LayerIds(layer) ==
    MhaIds(layer.self_attn) \cup MhaIds(layer.src_attn) \cup FfIds(layer.feed_forward)
    \cup {layer.sub[i].norm.par : i \in DOMAIN layer.sub}

\* copy.deepcopy(layer): every parameter object reachable from the layer is
\* copied once (deepcopy's memo keeps the sharing inside the layer), the
\* copies taking the identities from base on
DeepCopyShared(layer, base) == layer
DeepCopy(layer, base) ==
    LET ids == LayerIds(layer)
        f == [i \in ids |-> base + Cardinality({j \in ids : j < i})]
        mha(m) == [m EXCEPT !.linears = [i \in DOMAIN @ |-> f[@[i]]],
                            !.final_linear = f[@]]
    IN  [layer EXCEPT !.self_attn = mha(@), !.src_attn = mha(@),
                      !.feed_forward = [@ EXCEPT !.l1 = f[@], !.l2 = f[@]],
                      !.sub = [i \in DOMAIN @ |-> [@[i] EXCEPT !.norm.par = f[@]]]]

\* Encoder.__init__ and Decoder.__init__:
\* ModuleList([deepcopy(layer) for _ in range(n)]) and LayerNorm(layer.size)
StackInit(layer, n, base) ==
    LET k == Cardinality(LayerIds(layer))
    IN  [layers |-> [i \in 1..n |-> DeepCopy(layer, base + (i - 1) * k)],
         norm |-> LayerNormInit(layer.size, base + n * k)]

(***************************************************************************)
(* The forward passes of the layers and the stacks.                        *)
(***************************************************************************)

\* the lambda or module handed to ResidualConnection.forward, with what it
\* captures (NoTensor where it captures no memory)
NoTensor == Tensor(<<>>, <<>>, 0)
Sublayer(kind, layer, mask, memory) ==
    [kind |-> kind, layer |-> layer, mask |-> mask, memory |-> memory]

ApplySublayer(sub, x, md) ==
    CASE sub.kind = "self_attn" ->
            CHOOSE r \in {MultiHeadAttentionForward(sub.layer.self_attn, t, t, t, sub.mask, md) :
                            t \in {x}} : TRUE
      [] sub.kind = "src_attn" ->
            MultiHeadAttentionForward(sub.layer.src_attn, x, sub.memory, sub.memory,
                                      sub.mask, md)
      [] OTHER -> FeedForwardForward(sub.layer.feed_forward, x, md.training)

\* ResidualConnection.forward: x + dropout(sublayer(norm(x)))
ResidualConnectionForward(rc, x, sub, md) ==
    LET Body(t) ==
            Add(t, Dropout(ApplySublayer(sub, LayerNormForward(rc.norm, t), md),
                           rc.p, md.training))
    IN  CHOOSE r \in {Body(t) : t \in {x}} : TRUE

\* what EncoderLayer.forward hands to sub1 and sub2:
\* lambda x: self.self_attn(x, x, x, mask), then self.feed_forward
EncoderSublayers(layer, mask) ==
    <<Sublayer("self_attn", layer, mask, NoTensor),
      Sublayer("feed_forward", layer, NoneMask, NoTensor)>>

\* EncoderLayer.forward
EncoderLayerForward(layer, x, mask, md) ==
    LET subs == EncoderSublayers(layer, mask)
        x1 == ResidualConnectionForward(layer.sub[1], x, subs[1], md)
    IN  ResidualConnectionForward(layer.sub[2], x1, subs[2], md)

\* what DecoderLayer.forward hands to sub1, sub2 and sub3:
\* lambda x: self.self_attn(x, x, x, tgt_mask),
\* lambda x: self.src_attn(x, memory, memory, src_mask), self.feed_forward
DecoderSublayersUnmasked(layer, memory, src_mask, tgt_mask) ==
    <<Sublayer("self_attn", layer, NoneMask, NoTensor),
      Sublayer("src_attn", layer, src_mask, memory),
      Sublayer("feed_forward", layer, NoneMask, NoTensor)>>
DecoderSublayers(layer, memory, src_mask, tgt_mask) ==
    <<Sublayer("self_attn", layer, tgt_mask, NoTensor),
      Sublayer("src_attn", layer, src_mask, memory),
      Sublayer("feed_forward", layer, NoneMask, NoTensor)>>

\* DecoderLayer.forward
DecoderLayerForwardReordered(layer, x, memory, src_mask, tgt_mask, md) ==
    LET subs == DecoderSublayers(layer, memory, src_mask, tgt_mask)
        x1 == ResidualConnectionForward(layer.sub[1], x, subs[2], md)
        x2 == ResidualConnectionForward(layer.sub[2], x1, subs[1], md)
    IN  ResidualConnectionForward(layer.sub[3], x2, subs[3], md)
DecoderLayerForward(layer, x, memory, src_mask, tgt_mask, md) ==
    LET subs == DecoderSublayers(layer, memory, src_mask, tgt_mask)
        x1 == ResidualConnectionForward(layer.sub[1], x, subs[1], md)
        x2 == ResidualConnectionForward(layer.sub[2], x1, subs[2], md)
    IN  ResidualConnectionForward(layer.sub[3], x2, subs[3], md)

\* for layer in self.layers: x = layer(x, mask)
RECURSIVE EncoderLoop(_, _, _, _, _)
EncoderLoop(layers, i, x, mask, md) ==
    IF i > Len(layers) THEN x
    ELSE EncoderLoop(layers, i + 1, EncoderLayerForward(layers[i], x, mask, md), mask, md)

\* Encoder.forward
EncoderForward(enc, x, mask, md) ==
    LayerNormForward(enc.norm, EncoderLoop(enc.layers, 1, x, mask, md))

\* for layer in self.layers: x = layer(x, memory, src_mask, tgt_mask)
RECURSIVE DecoderLoop(_, _, _, _, _, _, _)
DecoderLoop(layers, i, x, memory, src_mask, tgt_mask, md) ==
    IF i > Len(layers) THEN x
    ELSE DecoderLoop(layers, i + 1,
             DecoderLayerForward(layers[i], x, memory, src_mask, tgt_mask, md),
             memory, src_mask, tgt_mask, md)

\* Decoder.forward
DecoderForward(dec, x, memory, src_mask, tgt_mask, md) ==
    LayerNormForward(dec.norm, DecoderLoop(dec.layers, 1, x, memory, src_mask, tgt_mask, md))

(***************************************************************************)
(* Embed, PositionalEncoding, Output and EncoderDecoder.                   *)
(***************************************************************************)

\* the outcome of a constructor: the object, or the exception it raised
Built(obj) == [ok |-> TRUE, err |-> "none", obj |-> <<obj>>]
Failed(kind) == [ok |-> FALSE, err |-> kind, obj |-> <<>>]

\* torch.sqrt(input): input must be a Tensor
PyInt(n) == [type |-> "int", value |-> n]
TorchSqrt(input) ==
    IF input.type = "Tensor" THEN Built(input) ELSE Failed("TypeError")

\* the nn.Embedding(vocab, d_model) an embedding module holds
EmbeddingInit(vocab, d_model, base) ==
    [vocab |-> vocab, d_model |-> d_model, emb |-> base]

\* Embed.__init__: self.scaling = torch.sqrt(self.d_model), d_model an int
EmbedInit(vocab, d_model, base) ==
    LET scaling == TorchSqrt(PyInt(d_model))
    IN  IF ~scaling.ok THEN Failed(scaling.err)
        ELSE Built(EmbeddingInit(vocab, d_model, base))

\* token ids (batch, seq); the input's id is the largest token id in it
Tokens(id, shape, r) == Tensor(shape, <<Ev("tokens", 0, id, <<>>)>>, r)

\* Embed.forward: self.emb(x) * self.scaling
EmbedForward(e, x) ==
    LET Body(t) ==
            IF ~t.ok THEN t
            ELSE IF Last(t.hist).arg >= e.vocab THEN Raise(t, "IndexOutOfRange")
            ELSE Then(Then(t, "emb", e.emb, 0, <<>>, t.shape \o <<e.d_model>>),
                      "scale", 0, 0, <<>>, t.shape \o <<e.d_model>>)
    IN  CHOOSE r \in {Body(t) : t \in {x}} : TRUE

\* PositionalEncoding.__init__: pe is (1, max_len, d_model); the cosines,
\* one per even feature, are assigned to the odd features
PositionalEncodingInit(d_model, p, max_len) ==
    LET evens == (d_model + 1) \div 2
        odds == d_model \div 2
    IN  IF ~Broadcastable(<<max_len, odds>>, <<max_len, evens>>)
           \/ BroadcastShape(<<max_len, odds>>, <<max_len, evens>>) # <<max_len, odds>>
        THEN Failed("ShapeMismatch")
        ELSE Built([d_model |-> d_model, max_len |-> max_len, p |-> p,
                    pe |-> <<1, max_len, d_model>>])

\* PositionalEncoding.forward: x + self.pe[:, :x.size(1)], then dropout; the
\* slice stops at max_len
PositionalEncodingForward(pos, x, training) ==
    LET Slice(t) == <<pos.pe[1], Min(t.shape[2], pos.pe[2]), pos.pe[3]>>
        Body(t) ==
            IF ~t.ok THEN t
            ELSE IF Len(t.shape) < 2 THEN Raise(t, "IndexOutOfRange")
            ELSE IF ~Broadcastable(t.shape, Slice(t)) THEN Raise(t, "ShapeMismatch")
            ELSE Dropout(Then(t, "pe", 0, 0, <<>>, BroadcastShape(t.shape, Slice(t))),
                         pos.p, training)
    IN  CHOOSE r \in {Body(t) : t \in {x}} : TRUE

\* Output.__init__ and Output.forward: log_softmax(l1(x))
OutputInit(input_dim, output_dim, base) ==
    [input_dim |-> input_dim, output_dim |-> output_dim, l1 |-> base]
OutputForward(o, x) ==
    LET Body(y) == IF ~y.ok THEN y ELSE Then(y, "log_softmax", 0, 0, <<>>, y.shape)
    IN  CHOOSE r \in {Body(y) : y \in {Linear(x, o.l1, o.input_dim, o.output_dim)}} : TRUE

\* EncoderDecoder.__init__
EncoderDecoderInit(encoder, decoder, src_embed, tgt_embed, final_layer) ==
    [encoder |-> encoder, decoder |-> decoder, src_embed |-> src_embed,
     tgt_embed |-> tgt_embed, final_layer |-> final_layer]

\* EncoderDecoder.encode
Encode(m, src, src_mask, md) ==
    EncoderForward(m.encoder, EmbedForward(m.src_embed, src), src_mask, md)

\* EncoderDecoder.decode
Decode(m, memory, src_mask, tgt, tgt_mask, md) ==
    DecoderForward(m.decoder, EmbedForward(m.tgt_embed, tgt),
                   memory, src_mask, tgt_mask, md)

\* EncoderDecoder.forward: the decoder runs after the encoder, with the
\* random generator where the encoder left it.  (memory ranges over the one
\* result of encode: the encoder is run once.)
Forward(m, src, tgt, src_mask, tgt_mask, md) ==
    CHOOSE out \in
        {IF ~memory.ok THEN memory
         ELSE OutputForward(m.final_layer,
                  Decode(m, memory, src_mask, [tgt EXCEPT !.rng = memory.rng],
                         tgt_mask, md)) :
            memory \in {Encode(m, src, src_mask, md)}} : TRUE

(***************************************************************************)
(* The objects a caller builds from the hyperparameters hp.                *)
(***************************************************************************)
NewEncoderLayer(h, base) ==
    EncoderLayerInit(h.d_model,
        MultiHeadAttentionInit(h.h, h.d_model, h.dropout, base),
        FeedForwardInit(h.d_model, h.d_ff, h.dropout, base + 5),
        h.dropout, base + 7)

NewDecoderLayer(h, base) ==
    DecoderLayerInit(h.d_model,
        MultiHeadAttentionInit(h.h, h.d_model, h.dropout, base),
        MultiHeadAttentionInit(h.h, h.d_model, h.dropout, base + 5),
        FeedForwardInit(h.d_model, h.d_ff, h.dropout, base + 10),
        h.dropout, base + 12)

Idle == "idle"
NoCall == [op |-> Idle, args |-> <<>>, ok |-> TRUE, err |-> "none", shape |-> <<>>]
NoObjs == [encLayer |-> <<>>, encoder |-> <<>>, decLayer |-> <<>>, decoder |-> <<>>,
           mha |-> <<>>, pe |-> <<>>, embed |-> <<>>, model |-> <<>>]
Modes == [training |-> TRUE, attn |-> TRUE]

(***************************************************************************)
(* The attention weights.  att is one invocation of Attention.forward as a *)
(* hook on it would see it, for one batch element, one head and the query  *)
(* position j: the mask row the caller gave for it (given), the row that   *)
(* reached Attention.forward (used), the raw scores of position j against  *)
(* the keys, the draws of the dropout, and the rows computed from them.    *)
(***************************************************************************)
NoAtt ==
    [site |-> Idle, sub |-> 0, j |-> 0, given |-> NoMask, used |-> NoMask,
     raw |-> <<>>, keep |-> <<>>, p |-> 0,
     scores |-> <<>>, soft |-> <<>>, p_attn |-> <<>>]

Observe(site, i, j, given, used, raw, p, keep) ==
    LET a == AttentionRow(raw, MaskRow(used), p, keep)
    IN  [site |-> site, sub |-> i, j |-> j,
         given |-> MaskRow(given), used |-> MaskRow(used),
         raw |-> raw, keep |-> keep, p |-> p,
         scores |-> a.scores, soft |-> a.soft, p_attn |-> a.p_attn]

\* the inputs: scores (one as low as the fill value), mask rows, draws
RawScores == {MaskFill, 0, 1, 3}
RawRows(n) == [1..n -> RawScores]
MaskArgs(n) == {NoneMask} \cup {RowMask(b) : b \in [1..n -> {0, 1}]}
Keeps(n, p) == IF p = 0 THEN {[k \in 1..n |-> 1]} ELSE [1..n -> {0, 1}]

HyperAttn ==
    {[N |-> 1, dropout |-> p, h |-> 2, d_model |-> 4, d_ff |-> 8] :
        p \in {0, DropoutTenths}}

InitAttn ==
    /\ hp \in HyperAttn
    /\ mode = Modes
    /\ rng = 0
    /\ nextId = 1
    /\ objs = NoObjs
    /\ calls = <<>>
    /\ shp = NoCall
    /\ att = NoAtt

\* Attention(dropout).forward(query, key, value, mask), called directly
AttentionCall ==
    /\ att.site = Idle
    /\ \E n \in 1..MaxSeq, j \in 1..MaxSeq, p \in {0, DropoutTenths} :
       \E mask \in MaskArgs(n), raw \in RawRows(n), keep \in Keeps(n, p) :
          att' = Observe("Attention", 0, j, mask, mask, raw, p, keep)
    /\ UNCHANGED <<hp, mode, rng, nextId, objs, calls, shp>>

\* MultiHeadAttention.forward(query, key, value, mask): mask.unsqueeze(1),
\* then self.attn, built as Attention(dropout), on every head
MultiHeadAttentionCall ==
    /\ att.site = Idle
    /\ LET m == MultiHeadAttentionInit(hp.h, hp.d_model, hp.dropout, nextId)
       IN  \E n \in 1..MaxSeq, j \in 1..MaxSeq :
           \E mask \in MaskArgs(n), raw \in RawRows(n), keep \in Keeps(n, m.p) :
              att' = Observe("MultiHeadAttention", 0, j, mask, Unsqueeze1(mask),
                             raw, m.p, keep)
    /\ UNCHANGED <<hp, mode, rng, nextId, objs, calls, shp>>

\* EncoderLayer.forward(x, mask): the attention of its first sublayer
EncoderLayerCall ==
    /\ att.site = Idle
    /\ LET layer == NewEncoderLayer(hp, nextId)
       IN  \E n \in 1..MaxSeq :
           \E j \in 1..n, mask \in MaskArgs(n), raw \in RawRows(n) :
           \E keep \in Keeps(n, layer.self_attn.p) :
              LET sub == EncoderSublayers(layer, mask)[1]
              IN  att' = Observe("EncoderLayer", 1, j, mask, Unsqueeze1(sub.mask),
                                 raw, sub.layer.self_attn.p, keep)
    /\ UNCHANGED <<hp, mode, rng, nextId, objs, calls, shp>>

\* DecoderLayer.forward(x, memory, src_mask, tgt_mask), x of t positions and
\* memory of s: the attention of its first sublayer (self-attention, keys
\* the t positions of x) or of its second (keys the s positions of memory)
DecoderLayerCall ==
    /\ att.site = Idle
    /\ LET layer == NewDecoderLayer(hp, nextId)
       IN  \E t \in 1..MaxSeq, s \in 1..MaxSeq, i \in {1, 2} :
           \E j \in 1..t, tgt_mask \in MaskArgs(t), src_mask \in MaskArgs(s) :
           \E raw \in RawRows(IF i = 1 THEN t ELSE s) :
           \E keep \in Keeps(Len(raw), layer.self_attn.p) :
              LET sub == DecoderSublayers(layer, NoTensor, src_mask, tgt_mask)[i]
                  m == IF i = 1 THEN sub.layer.self_attn ELSE sub.layer.src_attn
              IN  att' = Observe("DecoderLayer", i, j,
                                 IF i = 1 THEN tgt_mask ELSE src_mask,
                                 Unsqueeze1(sub.mask), raw, m.p, keep)
    /\ UNCHANGED <<hp, mode, rng, nextId, objs, calls, shp>>

NextAttn ==
    \/ AttentionCall
    \/ MultiHeadAttentionCall
    \/ EncoderLayerCall
    \/ DecoderLayerCall

SpecAttn == InitAttn /\ [][NextAttn]_vars

(***************************************************************************)
(* Properties of the attention weights (SpecAttn).                         *)
(***************************************************************************)
ApproxZero(w) == w >= 0 - Tol /\ w <= Tol
\* a row sums to 1.0, up to the rounding of its entries
SumsToOne(row) ==
    LET s == SumSeq(row) IN s >= One - Len(row) * Tol /\ s <= One + Len(row) * Tol
NonNegative(row) == \A k \in DOMAIN row : row[k] >= 0
\* x is so far above the fill value that exp(MaskFill - x) is 0
AboveFill(x) == ExpNeg(x - MaskFill) = 0
Observed == att.site # Idle
DecoderSelfAttention == att.site = "DecoderLayer" /\ att.sub = 1
Future == {k \in DOMAIN att.p_attn : k > att.j}

\* C1 as stated: in every decoder self-attention call the weight of query
\* position j on every key position k > j is approximately 0.
C1_Causal ==
    DecoderSelfAttention => \A k \in Future : ApproxZero(att.p_attn[k])

\* C1 amended: in a decoder self-attention call whose tgt_mask is 0 at (j, k)
\* for every k > j and non-zero at some key of row j whose score is far above
\* the fill value, the weight of query position j on every key position
\* k > j is approximately 0.
C1_CausalUnderCausalMask ==
    (/\ DecoderSelfAttention
     /\ att.given # NoMask
     /\ \A k \in Future : att.given[k] = 0
     /\ \E k \in DOMAIN att.given : att.given[k] # 0 /\ AboveFill(att.raw[k]))
    => \A k \in Future : ApproxZero(att.p_attn[k])

\* a causal row that hides a future key of high raw score
C1_Witness ==
    /\ DecoderSelfAttention
    /\ att.given # NoMask
    /\ Future # {}
    /\ \A k \in Future : att.given[k] = 0 /\ att.raw[k] = 3 /\ att.p_attn[k] = 0
    /\ \E k \in DOMAIN att.given : att.given[k] # 0 /\ AboveFill(att.raw[k])

\* C2 as stated: in every call of Attention.forward with a mask, a key whose
\* mask entry is 0 gets a weight of approximately 0, whatever the scores and
\* the other mask entries of the row.
C2_MaskedWeightZero ==
    (Observed /\ att.used # NoMask)
    => \A k \in DOMAIN att.used : att.used[k] = 0 => ApproxZero(att.p_attn[k])

\* C2 amended: a key whose mask entry is 0 gets a weight of approximately 0,
\* whatever its raw score, when the row has a key whose mask entry is
\* non-zero and whose score is far above the fill value.
C2_MaskedWeightZeroInLiveRow ==
    (/\ Observed
     /\ att.used # NoMask
     /\ \E k \in DOMAIN att.used : att.used[k] # 0 /\ AboveFill(att.raw[k]))
    => \A k \in DOMAIN att.used : att.used[k] = 0 => ApproxZero(att.p_attn[k])

\* a masked key of the highest raw score beside an unmasked key
C2_Witness ==
    /\ Observed
    /\ att.used # NoMask
    /\ \E k, l \in DOMAIN att.used :
          /\ att.used[k] = 0 /\ att.raw[k] = 3 /\ att.p_attn[k] = 0
          /\ att.used[l] # 0 /\ att.raw[l] = 0 /\ att.p_attn[l] > 0

\* C10 as stated: the weights Attention.forward multiplies with value,
\* p_attn, are all >= 0 and sum to 1 over the key positions.
C10_WeightsSumToOne ==
    Observed => NonNegative(att.p_attn) /\ SumsToOne(att.p_attn)

\* C10 amended: the softmax output is >= 0 and sums to 1 over the key
\* positions; the weights multiplied with value, after the dropout, are >= 0
\* and are the softmax output (so sum to 1) when the dropout probability is 0.
C10_SoftmaxSumsToOne ==
    Observed =>
        /\ NonNegative(att.soft) /\ SumsToOne(att.soft)
        /\ NonNegative(att.p_attn)
        /\ att.p = 0 => att.p_attn = att.soft

\* the dropout zeroed a positive weight of a masked call
C10_Witness ==
    /\ Observed
    /\ att.p > 0
    /\ att.used # NoMask
    /\ \E k, l \in DOMAIN att.soft :
          /\ att.keep[k] = 0 /\ att.soft[k] > 0 /\ att.p_attn[k] = 0
          /\ att.keep[l] = 1 /\ att.p_attn[l] > att.soft[l]

(***************************************************************************)
(* Construction.  The stack is built in the order the classes depend on    *)
(* each other, before the first forward call: shp holds the outcome of the *)
(* last constructor that raised, or of the last shape-level forward call.  *)
(***************************************************************************)
ForwardOps ==
    {"PositionalEncoding.forward", "MultiHeadAttention.forward",
     "Encoder.forward", "Decoder.forward"}

Setup == calls = <<>> /\ shp.op \notin ForwardOps /\ att.site = Idle

Has(slot) == Len(slot) = 1

\* the widths of the model; 3 is odd, 10 is the width of the spec's
\* scenario 4 (with h = 3)
DModels == {2, 3, 4, 10}

\* EncoderLayer(size, MultiHeadAttention(..), FeedForward(..), dropout)
EncoderLayerNew ==
    /\ Setup /\ ~Has(objs.encLayer)
    /\ objs' = [objs EXCEPT !.encLayer = <<NewEncoderLayer(hp, nextId)>>]
    /\ nextId' = nextId + Cardinality(LayerIds(NewEncoderLayer(hp, nextId)))
    /\ UNCHANGED <<hp, mode, rng, calls, shp, att>>

\* Encoder(layer, n)
EncoderNew ==
    /\ Setup /\ Has(objs.encLayer) /\ ~Has(objs.encoder)
    /\ LET enc == StackInit(objs.encLayer[1], hp.N, nextId)
       IN  /\ objs' = [objs EXCEPT !.encoder = <<enc>>]
           /\ nextId' = nextId + hp.N * Cardinality(LayerIds(objs.encLayer[1])) + 1
    /\ UNCHANGED <<hp, mode, rng, calls, shp, att>>

\* DecoderLayer(size, MultiHeadAttention(..), MultiHeadAttention(..),
\* FeedForward(..), dropout)
DecoderLayerNew ==
    /\ Setup /\ Has(objs.encoder) /\ ~Has(objs.decLayer)
    /\ objs' = [objs EXCEPT !.decLayer = <<NewDecoderLayer(hp, nextId)>>]
    /\ nextId' = nextId + Cardinality(LayerIds(NewDecoderLayer(hp, nextId)))
    /\ UNCHANGED <<hp, mode, rng, calls, shp, att>>

\* Decoder(layer, n)
DecoderNew ==
    /\ Setup /\ Has(objs.decLayer) /\ ~Has(objs.decoder)
    /\ LET dec == StackInit(objs.decLayer[1], hp.N, nextId)
       IN  /\ objs' = [objs EXCEPT !.decoder = <<dec>>]
           /\ nextId' = nextId + hp.N * Cardinality(LayerIds(objs.decLayer[1])) + 1
    /\ UNCHANGED <<hp, mode, rng, calls, shp, att>>

\* EncoderDecoder(encoder, decoder, src_embed, tgt_embed, final_layer), the
\* embeddings being modules that hold an nn.Embedding
EncoderDecoderNew ==
    /\ Setup /\ Has(objs.decoder) /\ ~Has(objs.model)
    /\ objs' = [objs EXCEPT !.model =
           <<EncoderDecoderInit(objs.encoder[1], objs.decoder[1],
                 EmbeddingInit(MaxVocab, hp.d_model, nextId),
                 EmbeddingInit(MaxVocab, hp.d_model, nextId + 1),
                 OutputInit(hp.d_model, MaxVocab, nextId + 2))>>]
    /\ nextId' = nextId + 3
    /\ UNCHANGED <<hp, mode, rng, calls, shp, att>>

\* Embed(vocab, d_model)
EmbedNew ==
    /\ Setup /\ ~Has(objs.embed)
    /\ \E vocab \in 1..MaxVocab :
          LET r == EmbedInit(vocab, hp.d_model, nextId)
          IN  /\ objs' = [objs EXCEPT !.embed = r.obj]
              /\ shp' = [op |-> "Embed.__init__", args |-> <<vocab, hp.d_model>>,
                         ok |-> r.ok, err |-> r.err, shape |-> <<>>]
    /\ UNCHANGED <<hp, mode, rng, nextId, calls, att>>

\* PositionalEncoding(d_model, dropout, max_len)
PositionalEncodingNew ==
    /\ Setup /\ ~Has(objs.pe)
    /\ \E max_len \in 1..MaxLen :
          LET r == PositionalEncodingInit(hp.d_model, hp.dropout, max_len)
          IN  /\ objs' = [objs EXCEPT !.pe = r.obj]
              /\ shp' = IF r.ok THEN shp
                        ELSE [op |-> "PositionalEncoding.__init__",
                              args |-> <<hp.d_model, max_len>>,
                              ok |-> r.ok, err |-> r.err, shape |-> <<>>]
    /\ UNCHANGED <<hp, mode, rng, nextId, calls, att>>

\* MultiHeadAttention(h, d_model, dropout)
MultiHeadAttentionNew ==
    /\ Setup /\ ~Has(objs.mha)
    /\ objs' = [objs EXCEPT !.mha =
           <<MultiHeadAttentionInit(hp.h, hp.d_model, hp.dropout, nextId)>>]
    /\ nextId' = nextId + 5
    /\ UNCHANGED <<hp, mode, rng, calls, shp, att>>

(***************************************************************************)
(* Forward calls at the level of shapes (SpecShape).  A forward call       *)
(* changes no object, so what can follow it is what can follow the         *)
(* construction before it: the calls are made from the states of the       *)
(* construction.                                                           *)
(***************************************************************************)
ShapeCall(op, args, out) ==
    CHOOSE r \in {[op |-> op, args |-> args, ok |-> t.ok, err |-> t.err, shape |-> t.shape] :
                    t \in {out}} : TRUE

\* PositionalEncoding.forward(x), x of shape (b, s, d_model)
PositionalEncodingCall ==
    /\ Setup /\ Has(objs.pe)
    /\ \E b \in 1..MaxBatch, s \in 1..(MaxLen + 1) :
          shp' = ShapeCall("PositionalEncoding.forward", <<b, s, objs.pe[1].d_model>>,
                     PositionalEncodingForward(objs.pe[1],
                         Input(1, <<b, s, objs.pe[1].d_model>>, rng), mode.training))
    /\ UNCHANGED <<hp, mode, rng, nextId, objs, calls, att>>

\* MultiHeadAttention.forward(x, x, x), x of shape (b, s, d_model)
MultiHeadAttentionShape ==
    /\ Setup /\ Has(objs.mha)
    /\ \E b \in 1..MaxBatch, s \in 1..MaxSeq :
          LET x == Input(1, <<b, s, objs.mha[1].d_model>>, rng)
          IN  shp' = ShapeCall("MultiHeadAttention.forward", <<b, s, objs.mha[1].d_model>>,
                         MultiHeadAttentionForward(objs.mha[1], x, x, x, NoneMask, mode))
    /\ UNCHANGED <<hp, mode, rng, nextId, objs, calls, att>>

\* Encoder.forward(x, mask), x of shape (b, s, d_model), mask (b, 1, s)
EncoderShape ==
    /\ Setup /\ Has(objs.encoder)
    /\ \E b \in 1..MaxBatch, s \in 1..MaxSeq :
       \E mask \in {NoneMask, Mask(1, <<b, 1, s>>)} :
          shp' = ShapeCall("Encoder.forward", <<b, s, hp.d_model>>,
                     EncoderForward(objs.encoder[1], Input(1, <<b, s, hp.d_model>>, rng),
                                    mask, mode))
    /\ UNCHANGED <<hp, mode, rng, nextId, objs, calls, att>>

\* Decoder.forward(x, memory, src_mask, tgt_mask), x of shape (b, t, d_model),
\* memory (b, s, d_model), src_mask (b, 1, s), tgt_mask (b, t, t)
DecoderShape ==
    /\ Setup /\ Has(objs.decoder)
    /\ \E b \in 1..MaxBatch, t \in 1..MaxSeq, s \in 1..MaxSeq :
          shp' = ShapeCall("Decoder.forward", <<b, t, hp.d_model, s>>,
                     DecoderForward(objs.decoder[1], Input(1, <<b, t, hp.d_model>>, rng),
                                    Input(2, <<b, s, hp.d_model>>, rng),
                                    Mask(1, <<b, 1, s>>), Mask(2, <<b, t, t>>), mode))
    /\ UNCHANGED <<hp, mode, rng, nextId, objs, calls, att>>

HyperShape ==
    {[N |-> n, dropout |-> 0, h |-> h, d_model |-> d, d_ff |-> 2 * d] :
        n \in 0..MaxN, h \in 1..MaxH, d \in DModels}

InitShape ==
    /\ hp \in HyperShape
    /\ mode = Modes
    /\ rng = 0
    /\ nextId = 1
    /\ objs = NoObjs
    /\ calls = <<>>
    /\ shp = NoCall
    /\ att = NoAtt

NextShape ==
    \/ EmbedNew
    \/ PositionalEncodingNew
    \/ MultiHeadAttentionNew
    \/ EncoderLayerNew
    \/ EncoderNew
    \/ DecoderLayerNew
    \/ DecoderNew
    \/ PositionalEncodingCall
    \/ MultiHeadAttentionShape
    \/ EncoderShape
    \/ DecoderShape

SpecShape == InitShape /\ [][NextShape]_vars

(***************************************************************************)
(* Claims on construction and shapes (SpecShape).                          *)
(***************************************************************************)

\* C4: a MultiHeadAttention whose d_model is not evenly divisible by h cannot
\* be constructed: every MultiHeadAttention object that exists has
\* h * d_k = d_model.
C4_IndivisibleRaisesAtConstruction ==
    Has(objs.mha) => objs.mha[1].h * objs.mha[1].d_k = objs.mha[1].d_model

\* C5: for every vocab > 0 and d_model > 0 the constructor of Embed returns
\* an Embed (on which forward can then be called).
C5_EmbedConstructible ==
    (shp.op = "Embed.__init__" /\ shp.args[1] > 0 /\ shp.args[2] > 0)
        => (shp.ok /\ Has(objs.embed))

\* C6: PositionalEncoding.forward on an input whose sequence length exceeds
\* max_len never returns a result, for every max_len >= 1.
C6_TooLongAlwaysFails ==
    (shp.op = "PositionalEncoding.forward" /\ shp.args[2] > objs.pe[1].max_len)
        => ~shp.ok

\* C9: MultiHeadAttention.forward(x, x, x), Encoder.forward and
\* Decoder.forward return a tensor of the shape (batch, seq, d_model) of
\* their input x, for the decoder also when the memory is of another length.
C9_ShapeInvariance ==
    shp.op \in {"MultiHeadAttention.forward", "Encoder.forward", "Decoder.forward"}
        => (shp.ok /\ shp.shape = <<shp.args[1], shp.args[2], shp.args[3]>>)

(***************************************************************************)
(* Forward calls on one Encoder and one Decoder, logged (Spec).  calls is  *)
(* the log of the forward calls made so far: what each was given and what  *)
(* it returned.  rng is the position of torch's global random generator.   *)
(***************************************************************************)

\* what a caller can see of a returned tensor
Value(c) == [ok |-> c.ok, err |-> c.err, shape |-> c.shape, hist |-> c.hist]

\* a returned tensor handed back in as an argument
Arg(v, r) == [ok |-> v.ok, err |-> v.err, shape |-> v.shape, hist |-> v.hist, rng |-> r]

Call(op, a, b, masks, memory, out) ==
    [op |-> op, a |-> a, b |-> b, masks |-> masks, memory |-> memory,
     training |-> mode.training, out |-> Value(out)]

\* module.train(m) / module.eval() on the modules built: nn.Module.train
\* reaches the registered submodules.  Attention is not an nn.Module, so the
\* nn.Dropout it holds is not reached and stays in training mode.
SetTraining(m) ==
    /\ Has(objs.encoder) /\ att.site = Idle
    /\ mode.training # m
    /\ mode' = [mode EXCEPT !.training = m]
    /\ UNCHANGED <<hp, rng, nextId, objs, calls, shp, att>>

\* encoder(x, mask), x of shape (1, MaxSeq, d_model)
EncoderCall ==
    /\ Has(objs.encoder) /\ att.site = Idle
    /\ Len(calls) < MaxCalls
    /\ \E mask \in {NoneMask, Mask(1, <<1, 1, MaxSeq>>)} :
          \E out \in {EncoderForward(objs.encoder[1],
                         Input(1, <<1, MaxSeq, hp.d_model>>, rng), mask, mode)} :
              /\ calls' = Append(calls,
                     Call("Encoder.forward", 1, 0, <<mask.id, 0>>, <<>>, out))
              /\ rng' = out.rng
    /\ UNCHANGED <<hp, mode, nextId, objs, shp, att>>

\* decoder(x, memory, src_mask, tgt_mask), memory of shape (1, 1, d_model)
DecoderCall ==
    /\ Has(objs.decoder) /\ att.site = Idle
    /\ Len(calls) < MaxCalls
    /\ \E memory \in {Input(2, <<1, 1, hp.d_model>>, rng)} :
       \E out \in {DecoderForward(objs.decoder[1],
                       Input(1, <<1, MaxSeq, hp.d_model>>, rng), memory,
                       Mask(1, <<1, 1, 1>>), Mask(2, <<1, MaxSeq, MaxSeq>>), mode)} :
          /\ calls' = Append(calls,
                 Call("Decoder.forward", 1, 0, <<1, 2>>, <<Value(memory)>>, out))
          /\ rng' = out.rng
    /\ UNCHANGED <<hp, mode, nextId, objs, shp, att>>

Hyper ==
    {[N |-> n, dropout |-> p, h |-> 2, d_model |-> 4, d_ff |-> 8] :
        n \in 0..MaxN, p \in {0, DropoutTenths}}

Init ==
    /\ hp \in Hyper
    /\ mode = Modes
    /\ rng = 0
    /\ nextId = 1
    /\ objs = NoObjs
    /\ calls = <<>>
    /\ shp = NoCall
    /\ att = NoAtt

Next ==
    \/ EncoderLayerNew
    \/ EncoderNew
    \/ DecoderLayerNew
    \/ DecoderNew
    \/ \E m \in BOOLEAN : SetTraining(m)
    \/ EncoderCall
    \/ DecoderCall

Spec == Init /\ [][Next]_vars

\* C7: Encoder.forward is stateless per call: any two invocations on the one
\* Encoder given the same input and the same mask return the same output,
\* whatever was called before and whatever the hidden state or randomness.
C7_EncoderStateless ==
    \A i \in DOMAIN calls, j \in DOMAIN calls :
        (/\ calls[i].op = "Encoder.forward" /\ calls[j].op = "Encoder.forward"
         /\ calls[i].a = calls[j].a /\ calls[i].masks = calls[j].masks)
            => calls[i].out = calls[j].out

\* the index of the layer of the stack that owns a parameter object: n + 1
\* for the final LayerNorm, 0 for an object the stack does not own
LayerOf(stack, id) ==
    IF id = stack.norm.par THEN Len(stack.layers) + 1
    ELSE IF \E i \in DOMAIN stack.layers : id \in LayerIds(stack.layers[i])
         THEN CHOOSE i \in DOMAIN stack.layers : id \in LayerIds(stack.layers[i])
    ELSE 0

\* a layer with the identities of its parameter objects erased
Erased(layer) == DeepCopy(layer, 0)

\* the stack holds n layers, each a copy of the template with parameter
\* objects of its own
IndependentCopies(stack, template, n) ==
    /\ Len(stack.layers) = n
    /\ \A i \in DOMAIN stack.layers :
          /\ Erased(stack.layers[i]) = Erased(template)
          /\ LayerIds(stack.layers[i]) \cap LayerIds(template) = {}
          /\ stack.norm.par \notin LayerIds(stack.layers[i])
          /\ \A j \in DOMAIN stack.layers :
                i # j => LayerIds(stack.layers[i]) \cap LayerIds(stack.layers[j]) = {}

\* the parameter objects used by a forward pass are those of layer 1, then
\* of layer 2, .., each layer taking part, and last the final LayerNorm, once
InIndexOrder(stack, hist) ==
    LET n == Len(stack.layers)
        own == [k \in DOMAIN hist |-> LayerOf(stack, hist[k].par)]
        used == {k \in DOMAIN hist : own[k] # 0}
    IN  /\ \A k1 \in used, k2 \in used : k1 < k2 => own[k1] <= own[k2]
        /\ \A i \in 1..n : \E k \in used : own[k] = i
        /\ Len(hist) > 0 /\ own[Len(hist)] = n + 1
        /\ Cardinality({k \in used : own[k] = n + 1}) = 1

\* C8: an Encoder or Decoder built with depth n holds exactly n layers, each
\* a deep copy of the given layer, no parameter object being shared between
\* two layers or between a layer and the template, and forward applies the
\* layers in index order, then the final LayerNorm.
C8_IndependentLayersInOrder ==
    /\ Has(objs.encoder) => IndependentCopies(objs.encoder[1], objs.encLayer[1], hp.N)
    /\ Has(objs.decoder) => IndependentCopies(objs.decoder[1], objs.decLayer[1], hp.N)
    /\ \A i \in DOMAIN calls :
          /\ calls[i].op = "Encoder.forward"
                => (calls[i].out.ok /\ InIndexOrder(objs.encoder[1], calls[i].out.hist))
          /\ calls[i].op = "Decoder.forward"
                => (calls[i].out.ok /\ InIndexOrder(objs.decoder[1], calls[i].out.hist))

\* an Encoder and a Decoder of depth 2 or more, each having run forward
C8_Witness ==
    /\ Has(objs.encoder) /\ Has(objs.decoder) /\ hp.N >= 2
    /\ Len(objs.encoder[1].layers) = hp.N /\ Len(objs.decoder[1].layers) = hp.N
    /\ \E i \in DOMAIN calls : calls[i].op = "Encoder.forward" /\ calls[i].out.ok
    /\ \E i \in DOMAIN calls : calls[i].op = "Decoder.forward" /\ calls[i].out.ok

(***************************************************************************)
(* Calls on one EncoderDecoder, logged (SpecE2E): encode, decode on the    *)
(* memory an earlier encode returned, and forward.                         *)
(***************************************************************************)

\* model.encode(src, src_mask), src of shape (1, MaxSeq)
EncodeCall ==
    /\ Has(objs.model) /\ att.site = Idle
    /\ Len(calls) < MaxSteps
    /\ \E id \in {0, MaxVocab - 1} :
          \E out \in {Encode(objs.model[1], Tokens(id, <<1, MaxSeq>>, rng),
                            Mask(1, <<1, 1, MaxSeq>>), mode)} :
              /\ calls' = Append(calls,
                     Call("EncoderDecoder.encode", id, 0, <<1, 0>>, <<>>, out))
              /\ rng' = out.rng
    /\ UNCHANGED <<hp, mode, nextId, objs, shp, att>>

\* model.decode(memory, src_mask, tgt, tgt_mask), memory the result of an
\* earlier encode
DecodeCall ==
    /\ Has(objs.model) /\ att.site = Idle
    /\ Len(calls) < MaxSteps
    /\ \E i \in DOMAIN calls :
          /\ calls[i].op = "EncoderDecoder.encode"
          /\ \E out \in {Decode(objs.model[1], Arg(calls[i].out, rng),
                                Mask(1, <<1, 1, MaxSeq>>), Tokens(0, <<1, MaxSeq>>, rng),
                                Mask(2, <<1, MaxSeq, MaxSeq>>), mode)} :
                /\ calls' = Append(calls,
                       Call("EncoderDecoder.decode", 0, 0, <<1, 2>>,
                            <<calls[i].out>>, out))
                /\ rng' = out.rng
    /\ UNCHANGED <<hp, mode, nextId, objs, shp, att>>

\* model(src, tgt, src_mask, tgt_mask)
ForwardCall ==
    /\ Has(objs.model) /\ att.site = Idle
    /\ Len(calls) < MaxSteps
    /\ \E id \in {0, MaxVocab - 1} :
          \E out \in {Forward(objs.model[1], Tokens(id, <<1, MaxSeq>>, rng),
                             Tokens(0, <<1, MaxSeq>>, rng),
                             Mask(1, <<1, 1, MaxSeq>>), Mask(2, <<1, MaxSeq, MaxSeq>>), mode)} :
              /\ calls' = Append(calls,
                     Call("EncoderDecoder.forward", id, 0, <<1, 2>>, <<>>, out))
              /\ rng' = out.rng
    /\ UNCHANGED <<hp, mode, nextId, objs, shp, att>>

NextE2E ==
    \/ EncoderLayerNew
    \/ EncoderNew
    \/ DecoderLayerNew
    \/ DecoderNew
    \/ EncoderDecoderNew
    \/ \E m \in BOOLEAN : SetTraining(m)
    \/ EncodeCall
    \/ DecodeCall
    \/ ForwardCall

SpecE2E == Init /\ [][NextE2E]_vars

\* C3: forward(src, tgt, src_mask, tgt_mask) returns exactly
\* final_layer(decode(encode(src, src_mask), src_mask, tgt, tgt_mask)): the
\* memory of a separate encode call, passed to decode with the same masks
\* and the same tgt, gives the decoder output that forward projects.
C3_ForwardIsComposition ==
    \A i \in DOMAIN calls, j \in DOMAIN calls, k \in DOMAIN calls :
        (/\ calls[i].op = "EncoderDecoder.encode"
         /\ calls[j].op = "EncoderDecoder.decode"
         /\ calls[j].memory = <<calls[i].out>>
         /\ calls[j].masks[1] = calls[i].masks[1]
         /\ calls[k].op = "EncoderDecoder.forward"
         /\ calls[k].a = calls[i].a /\ calls[k].b = calls[j].b
         /\ calls[k].masks = calls[j].masks)
            => calls[k].out
                   = Value(OutputForward(objs.model[1].final_layer, Arg(calls[j].out, 0)))

(***************************************************************************)
(* Forward calls on one DecoderLayer, logged (SpecLayer).                  *)
(***************************************************************************)

\* layer(x, memory, src_mask, tgt_mask), x of shape (1, MaxSeq, d_model),
\* memory of shape (1, s, d_model), src_mask (1, 1, s), tgt_mask None or
\* (1, MaxSeq, MaxSeq)
DecoderLayerForwardCall ==
    /\ Has(objs.decLayer) /\ att.site = Idle
    /\ Len(calls) < MaxCalls
    /\ \E s \in 1..MaxSeq, tgt_mask \in {NoneMask, Mask(2, <<1, MaxSeq, MaxSeq>>)} :
       \E memory \in {Input(2, <<1, s, hp.d_model>>, rng)} :
       \E out \in {DecoderLayerForward(objs.decLayer[1],
                       Input(1, <<1, MaxSeq, hp.d_model>>, rng), memory,
                       Mask(1, <<1, 1, s>>), tgt_mask, mode)} :
          /\ calls' = Append(calls,
                 Call("DecoderLayer.forward", 1, 0, <<1, tgt_mask.id>>,
                      <<Value(memory)>>, out))
          /\ rng' = out.rng
    /\ UNCHANGED <<hp, mode, nextId, objs, shp, att>>

NextLayer ==
    \/ EncoderLayerNew
    \/ EncoderNew
    \/ DecoderLayerNew
    \/ \E m \in BOOLEAN : SetTraining(m)
    \/ DecoderLayerForwardCall

SpecLayer == Init /\ [][NextLayer]_vars

\* the positions in a history of the operations other than the dropouts
Steps(hist) ==
    LET NoDropout(i) == hist[i].op # "dropout"
    IN  SelectSeq([i \in 1..Len(hist) |-> i], NoDropout)

\* the operations of one DecoderLayer.forward, after the input, and the
\* parameter object of each
LayerOps ==
    <<"norm", "linear", "attention", "linear", "add",
      "norm", "linear", "attention", "linear", "add",
      "norm", "linear", "relu", "linear", "add">>
LayerPars(layer) ==
    <<layer.sub[1].norm.par, layer.self_attn.linears[1], 0, layer.self_attn.final_linear, 0,
      layer.sub[2].norm.par, layer.src_attn.linears[1], 0, layer.src_attn.final_linear, 0,
      layer.sub[3].norm.par, layer.feed_forward.l1, 0, layer.feed_forward.l2, 0>>

\* the attention at position i of hist has the mask of identity mask, its
\* query is the state just normalized, projected by the first linear of m,
\* and its key and value are kv projected by the second and the third
AttendsTo(hist, i, m, mask, kv) ==
    /\ hist[i].arg = mask
    /\ hist[i - 2].op = "norm"
    /\ hist[i - 1] = Ev("linear", m.linears[1], 0, <<>>)
    /\ hist[i].mem = <<Append(kv, Ev("linear", m.linears[2], 0, <<>>)),
                       Append(kv, Ev("linear", m.linears[3], 0, <<>>))>>

ThreeSublayersInOrder(layer, c) ==
    LET hist == c.out.hist
        at == Steps(hist)
    IN  /\ c.out.ok
        /\ Len(at) = 1 + Len(LayerOps)
        /\ hist[1] = Ev("input", 0, c.a, <<>>)
        /\ \A n \in DOMAIN LayerOps :
              /\ hist[at[n + 1]].op = LayerOps[n]
              /\ hist[at[n + 1]].par = LayerPars(layer)[n]
        \* self-attention: query = key = value = norm(x), mask = tgt_mask
        /\ AttendsTo(hist, at[4], layer.self_attn, c.masks[2], SubSeq(hist, 1, at[2]))
        \* cross-attention: query = norm(x), key = value = memory as it was
        \* given, mask = src_mask
        /\ AttendsTo(hist, at[9], layer.src_attn, c.masks[1], c.memory[1].hist)
        /\ c.memory[1].hist = <<Ev("input", 0, 2, <<>>)>>
        \* the feed-forward runs on the state just normalized
        /\ at[13] = at[12] + 1

\* C11: every DecoderLayer.forward call runs exactly three residual
\* sublayers, each once on the layer-normalized running state, in this
\* order: self-attention with query = key = value = x and mask = tgt_mask,
\* cross-attention with query = x, key = value = the memory and
\* mask = src_mask, then the feed-forward; the memory and the masks are not
\* swapped and the memory is used as given, not normalized.
C11_ThreeSublayersInOrder ==
    \A i \in DOMAIN calls :
        calls[i].op = "DecoderLayer.forward"
            => ThreeSublayersInOrder(objs.decLayer[1], calls[i])

\* a call in training mode with dropout, a tgt_mask, and a memory of another
\* length than x
C11_Witness ==
    \E i \in DOMAIN calls :
        /\ calls[i].op = "DecoderLayer.forward"
        /\ calls[i].out.ok /\ calls[i].training /\ hp.dropout > 0
        /\ calls[i].masks = <<1, 2>>
        /\ calls[i].memory[1].shape[2] # calls[i].out.shape[2]
        /\ \E k \in DOMAIN calls[i].out.hist : calls[i].out.hist[k].op = "dropout"

====
